---- MODULE Spec2Model ----
(***************************************************************************)
(* The Fruit Box game of src/script.js (the later Game class, lines        *)
(* 377-805): session phases, the countdown and clock intervals, the        *)
(* render loop, the lasso input handlers, selection scoring, the token     *)
(* sampler and the particle bursts.                                        *)
(*                                                                         *)
(* Coordinates are integers, so Math.hypot(dx, dy) < d is dx^2+dy^2 < d^2  *)
(* and the division of the ray cast is cross-multiplied.  A value of       *)
(* Math.random() is a fraction <<num, den>> with 0 <= num < den.           *)
(* Particle life is counted in thousandths; this.particles is kept as the   *)
(* bag of its elements, the array order deciding only the painting order.  *)
(***************************************************************************)
EXTENDS Integers, Sequences, FiniteSets, Bags

VARIABLES
    state,          \* this.state: "INTRO", "COUNTDOWN", "PLAYING", "FINISHED"
    score,          \* this.score
    timeLeft,       \* this.timeLeft
    highScore,      \* this.highScore, stored as fruitBoxHighScore when it rises
    newRecordBadge, \* #newRecordBadge: "shown", "hidden", "unset" before endGame
    timerInterval,  \* this.timerInterval: an interval handle, 0 for null
    apples,         \* this.apples: sequence of Apple records
    particles,      \* this.particles: bag of Particle records
    isDrawing,      \* this.isDrawing
    currentPath,    \* this.currentPath: sequence of points
    timers,         \* the browser's live setInterval timers, in firing order
    nextHandle,     \* the handle the next setInterval call returns
    loops,          \* live requestAnimationFrame chains started by loop()
    starts,         \* startGame() calls so far
    made,           \* Apple objects constructed since the last startCountdown
    playTicks,      \* updateTimer() calls since the phase last became PLAYING
    evaluated,      \* how the last checkSelection() of this gesture ended
    sampling        \* the sampling loop in progress: its kind, attempts, added
                    \* and count; handlers run their loops within one step

vars == <<state, score, timeLeft, highScore, newRecordBadge, timerInterval,
          apples, particles,
          isDrawing, currentPath, timers, nextHandle, loops, starts,
          made, playTicks, evaluated, sampling>>

----------------------------------------------------------------------------
(* Bounds of the model *)

\* number of startGame() commands in one behaviour of SessionSpec
MaxStarts == 2
\* number of startGame() commands in one behaviour of Spec
MaxGames == 1
\* requestAnimationFrame callbacks that run back to back in Spec
FrameBatch == 15
\* points recorded in one lasso path
MaxPath == 3
\* a new gesture is begun only while the score is below this
MaxScore == 2
\* the board's target count; the source's 30 (totalApples, targetApples)
\* scaled to a board TLC can enumerate
totalApples == 3
targetApples == 3

(* Program constants *)
GameTime == 60
CountdownFrom == 3
appleRadius == 25
buffer == 10
maxAttempts == 1000
refillAttempts == 500
MinMove == 5
MatchSum == 10
BurstSize == 10
ValueRange == 9
FullLife == 1000
DecayBase == 20
DecaySpan == 50

\* this.width, this.height: the canvas rectangle read by resize()
width == 250
height == 130

----------------------------------------------------------------------------
(* Sampled environment inputs *)

\* outcomes of the three Math.random() calls of one placement attempt
RandomDraws ==
    { [x |-> <<0, 3>>, y |-> <<1, 2>>, value |-> <<3, 9>>],
      [x |-> <<1, 3>>, y |-> <<1, 2>>, value |-> <<5, 9>>],
      [x |-> <<2, 3>>, y |-> <<1, 2>>, value |-> <<9, 10>>] }

\* outcomes of the Math.random() call that sets a particle's decay
DecayRandoms == { <<49, 50>> }

\* the outcome that gives a particle the slowest decay, 0.02
SlowDecays == { <<0, 1>> }

\* the placement outcomes of a session whose board holds a single token
SessionDraws == { [x |-> <<0, 3>>, y |-> <<1, 2>>, value |-> <<3, 9>>] }

\* the placement outcomes of a board of two tokens, 4 and 6
RecordDraws ==
    { [x |-> <<0, 3>>, y |-> <<1, 2>>, value |-> <<3, 9>>],
      [x |-> <<1, 3>>, y |-> <<1, 2>>, value |-> <<5, 9>>] }

\* placement outcomes with more free places than the board's target: three
\* places in the top row and one below, between the first two
CapDraws ==
    { [x |-> <<0, 3>>, y |-> <<0, 1>>, value |-> <<3, 9>>],
      [x |-> <<1, 6>>, y |-> <<59, 60>>, value |-> <<5, 9>>],
      [x |-> <<1, 3>>, y |-> <<0, 1>>, value |-> <<3, 9>>],
      [x |-> <<2, 3>>, y |-> <<0, 1>>, value |-> <<5, 9>>] }

\* canvas-local pointer positions delivered by getPos(): where a gesture
\* begins and where it moves to
PointerStarts == { [x |-> 5, y |-> 5] }
PointerMoves == { [x |-> 5, y |-> 125], [x |-> 125, y |-> 65] }
\* the same, and a position exactly 5 away from where the gesture begins
SessionMoves == PointerMoves \cup { [x |-> 5, y |-> 10] }

\* values of localStorage's fruitBoxHighScore at page load
StoredHighScores == {0, 3}

----------------------------------------------------------------------------
(* Apple and Particle *)

Apple(id, x, y, value) ==
    [id |-> id, x |-> x, y |-> y, value |-> value,
     selected |-> FALSE, removed |-> FALSE]

Particle(r) ==
    [life |-> FullLife, decay |-> (r[1] * DecaySpan) \div r[2] + DecayBase]

ParticleUpdate(p) == [p EXCEPT !.life = p.life - p.decay]

\* Math.random() * (extent - 2 * (appleRadius + buffer)) + (appleRadius + buffer)
RandomCoord(r, extent) ==
    (r[1] * (extent - 2 * (appleRadius + buffer))) \div r[2] + (appleRadius + buffer)

\* values drawn from 1 to 10
RandomValueToTen(r) == (r[1] * (ValueRange + 1)) \div r[2] + 1

\* Math.floor(Math.random() * 9) + 1
RandomValue(r) == (r[1] * ValueRange) \div r[2] + 1

----------------------------------------------------------------------------
(* Token placement sampler *)

Dist2(a, x, y) == (a.x - x) * (a.x - x) + (a.y - y) * (a.y - y)

Spacing2 == (appleRadius * 2 + buffer) * (appleRadius * 2 + buffer)

\* the collision loop of generateApples: every apple of the array is an obstacle
OverlapsAny(as, x, y) ==
    \E i \in 1..Len(as) : Dist2(as[i], x, y) < Spacing2

\* the collision loop of spawnNewApples: removed apples are skipped
OverlapsActive(as, x, y) ==
    \E i \in 1..Len(as) : ~as[i].removed /\ Dist2(as[i], x, y) < Spacing2

\* One pass of generateApples' while body on board b = [apples, made] with the
\* random outcomes d.
GenerateAttempt(b, d, game) ==
    LET x == RandomCoord(d.x, width)
        y == RandomCoord(d.y, height)
    IN  IF OverlapsAny(b.apples, x, y)
        THEN b
        ELSE [apples |-> Append(b.apples,
                                Apple(<<game, b.made + 1>>, x, y, RandomValue(d.value))),
              made |-> b.made + 1]

\* a loop condition without the attempt budget
generateContinuesUnbounded(as, attempts) == Len(as) < totalApples

\* generateApples' loop condition
generateContinues(as, attempts) ==
    Len(as) < totalApples /\ attempts < maxAttempts

\* The boards generateApples' loop can hold after `attempts` passes, S being
\* those it can hold now.  A board that has left the loop stays as it is; once
\* a pass adds no new board, later passes add none either.
RECURSIVE GenerateLoop(_, _, _, _)
GenerateLoop(S, attempts, game, Draws) ==
    LET Running == { b \in S : generateContinues(b.apples, attempts) }
        Stepped == (S \ Running) \cup
                   { GenerateAttempt(b, d, game) : b \in Running, d \in Draws }
    IN  IF Running = {} \/ Stepped = S
        THEN S
        ELSE GenerateLoop(Stepped, attempts + 1, game, Draws)

\* a start that samples into the old array
keptBoard(as) == as

\* the array generateApples samples into: this.apples = [] discards the old one
clearedBoard(as) == <<>>

\* generateApples() on the array as: the reset and the sampling loop
generateApples(as, game, Draws) ==
    GenerateLoop({ [apples |-> clearedBoard(as), made |-> 0] }, 0, game, Draws)

\* a pass that tests the candidate against the tokens the refill found on
\* the board, not against those it has added itself
SpawnAttemptOldOnly(b, d, game) ==
    LET x == RandomCoord(d.x, width)
        y == RandomCoord(d.y, height)
    IN  IF OverlapsActive(SubSeq(b.apples, 1, Len(b.apples) - b.added), x, y)
        THEN b
        ELSE [apples |-> Append(b.apples,
                                Apple(<<game, b.made + 1>>, x, y, RandomValue(d.value))),
              made |-> b.made + 1,
              added |-> b.added + 1]

\* One pass of spawnNewApples' while body on b = [apples, made, added].
SpawnAttempt(b, d, game) ==
    LET x == RandomCoord(d.x, width)
        y == RandomCoord(d.y, height)
    IN  IF OverlapsActive(b.apples, x, y)
        THEN b
        ELSE [apples |-> Append(b.apples,
                                Apple(<<game, b.made + 1>>, x, y, RandomValue(d.value))),
              made |-> b.made + 1,
              added |-> b.added + 1]

\* a loop condition without the count of tokens asked for
spawnContinuesToBudget(added, count, attempts) == attempts < refillAttempts

\* spawnNewApples' loop condition
spawnContinues(added, count, attempts) ==
    added < count /\ attempts < refillAttempts

RECURSIVE SpawnLoop(_, _, _, _, _)
SpawnLoop(S, attempts, count, game, Draws) ==
    LET Running == { b \in S : spawnContinues(b.added, count, attempts) }
        Stepped == (S \ Running) \cup
                   { SpawnAttempt(b, d, game) : b \in Running, d \in Draws }
    IN  IF Running = {} \/ Stepped = S
        THEN S
        ELSE SpawnLoop(Stepped, attempts + 1, count, game, Draws)

\* a filter that keeps removed tokens too
RemovedOrNot(a) == TRUE

NotRemoved(a) == ~a.removed

\* spawnNewApples(count): the sampling loop, then the compaction
\* this.apples = this.apples.filter(a => !a.removed)
spawnNewApples(as, count, game, made0, Draws) ==
    { [apples |-> SelectSeq(b.apples, NotRemoved), made |-> b.made] :
        b \in SpawnLoop({ [apples |-> as, made |-> made0, added |-> 0] },
                        0, count, game, Draws) }

\* a checkRefill() that counts removed tokens as present
checkRefillByLength(as, game, made0, Draws) ==
    LET needed == targetApples - Len(as)
    IN  IF needed > 0
        THEN spawnNewApples(as, needed, game, made0, Draws)
        ELSE { [apples |-> as, made |-> made0] }

\* checkRefill(): the boards it can leave, as [apples, made]
checkRefill(as, game, made0, Draws) ==
    LET currentApples == Len(SelectSeq(as, NotRemoved))
        needed == targetApples - currentApples
    IN  IF needed > 0
        THEN spawnNewApples(as, needed, game, made0, Draws)
        ELSE { [apples |-> as, made |-> made0] }

----------------------------------------------------------------------------
(* Geometry *)

\* the edge test of isPointInPolygon for vertices vi = vs[i], vj = vs[j]:
\* ((yi > y) !== (yj > y)) && (x < (xj - xi) * (y - yi) / (yj - yi) + xi)
Intersect(point, vi, vj) ==
    /\ (vi.y > point.y) # (vj.y > point.y)
    /\ LET num == (vj.x - vi.x) * (point.y - vi.y)
           den == vj.y - vi.y
       IN  IF den > 0
           THEN (point.x - vi.x) * den < num
           ELSE (point.x - vi.x) * den > num

\* the loop of isPointInPolygon from index i on (1-based), j the previous index
RECURSIVE RayCast(_, _, _, _, _)
RayCast(point, vs, i, j, inside) ==
    IF i > Len(vs)
    THEN inside
    ELSE RayCast(point, vs, i + 1, i,
                 IF Intersect(point, vs[i], vs[j]) THEN ~inside ELSE inside)

isPointInPolygon(point, vs) ==
    IF Len(vs) = 0 THEN FALSE ELSE RayCast(point, vs, 1, Len(vs), FALSE)

----------------------------------------------------------------------------
(* Selection *)

Deselect(a) == [a EXCEPT !.selected = FALSE]

\* checkSelection() without its early return
pathNeverTooShort(vs) == FALSE

\* this.currentPath.length < 3
pathTooShort(vs) == Len(vs) < 3

MapSeq(s, F(_)) == [i \in 1..Len(s) |-> F(s[i])]

\* a checkRealTimeSelection() that does not skip removed tokens
checkRealTimeSelectionAll(as, vs) ==
    IF Len(vs) < 3
    THEN MapSeq(as, Deselect)
    ELSE [i \in 1..Len(as) |->
            [as[i] EXCEPT !.selected = isPointInPolygon(as[i], vs)]]

\* checkRealTimeSelection() on board as with path vs
checkRealTimeSelection(as, vs) ==
    IF Len(vs) < 3
    THEN MapSeq(as, Deselect)
    ELSE [i \in 1..Len(as) |->
            IF as[i].removed
            THEN as[i]
            ELSE [as[i] EXCEPT !.selected = isPointInPolygon(as[i], vs)]]

SelectedActive(a) == a.selected /\ ~a.removed

\* selectedApples of the earlier Game class's checkSelection(): the tokens
\* that are not removed and whose centre the ray cast finds inside the path
containedApples(as, vs) ==
    SelectSeq(as, LAMBDA a : ~a.removed /\ isPointInPolygon(a, vs))

\* selectedApples.reduce((acc, apple) => acc + apple.value, 0)
RECURSIVE SumValues(_)
SumValues(s) == IF s = <<>> THEN 0 ELSE Head(s).value + SumValues(Tail(s))

\* updateScore(points) applied to score sc
updateScore(points, sc) == IF points = 0 THEN 0 ELSE sc + points

\* the particles that k more pushes of new Particle(...) can leave, S being
\* those that can be there now
RECURSIVE pushParticles(_, _, _)
pushParticles(S, k, Decays) ==
    IF k = 0
    THEN S
    ELSE pushParticles({ b (+) SetToBag({Particle(r)}) : b \in S, r \in Decays },
                       k - 1, Decays)

\* the particles spawnParticles can leave after n calls on ps
spawnParticles(ps, n, Decays) == pushParticles({ps}, BurstSize * n, Decays)

\* a match that removes every token of the board
MarkRemovedAll(as) == [i \in 1..Len(as) |-> [as[i] EXCEPT !.removed = TRUE]]

\* the forEach of checkSelection's match branch: apple.removed = true
MarkRemoved(as) ==
    [i \in 1..Len(as) |->
        IF SelectedActive(as[i]) THEN [as[i] EXCEPT !.removed = TRUE] ELSE as[i]]

\* checkSelection(): the outcomes [apples, score, particles, made] it can leave
checkSelection(as, vs, sc, ps, game, made0, Draws, Decays) ==
    IF pathTooShort(vs)
    THEN { [apples |-> as, score |-> sc, particles |-> ps, made |-> made0] }
    ELSE LET selectedApples == SelectSeq(as, SelectedActive)
             sum == SumValues(selectedApples)
         IN  IF sum = MatchSum
             THEN { [apples |-> MapSeq(b.apples, Deselect),
                     score |-> updateScore(Len(selectedApples), sc),
                     particles |-> q,
                     made |-> b.made] :
                      b \in checkRefill(MarkRemoved(as), game, made0, Draws),
                      q \in spawnParticles(ps, Len(selectedApples), Decays) }
             ELSE { [apples |-> MapSeq(as, Deselect), score |-> sc,
                     particles |-> ps, made |-> made0] }

\* the branch checkSelection() takes: the early return, the match, or neither
selectionBranch(as, vs) ==
    IF pathTooShort(vs)
    THEN "short"
    ELSE IF SumValues(SelectSeq(as, SelectedActive)) = MatchSum
         THEN "match"
         ELSE "miss"

----------------------------------------------------------------------------
(* Interval timers and the render loop *)

\* Both intervals have the period 1000 ms, so live timers fire in rotation:
\* the head of `timers` fires next and re-arms at the tail, and a timer set
\* now fires after every timer that is already armed.
CountdownTimer(h) == [id |-> h, kind |-> "countdown", count |-> CountdownFrom]
ClockTimer(h) == [id |-> h, kind |-> "clock", count |-> 0]

\* clearInterval(h)
clearInterval(q, h) == SelectSeq(q, LAMBDA t : t.id # h)

\* a filter that keeps a particle whose life is exactly 0
AliveAtZero(p) == p.life >= 0

Alive(p) == p.life > 0

\* this.particles.filter(p => p.life > 0)
filterAlive(ps) == [p \in { q \in DOMAIN ps : Alive(q) } |-> ps[p]]

\* update(): particles advance, then the dead ones are dropped
update(ps) == filterAlive(BagOfAll(ParticleUpdate, ps))

\* beginPlay() without its clearInterval
beginPlayTimersNoClear(q, old, fresh) == Append(q, ClockTimer(fresh))

\* the timers after beginPlay's clearInterval / setInterval pair
beginPlayTimers(q, old, fresh) ==
    Append(IF old # 0 THEN clearInterval(q, old) ELSE q, ClockTimer(fresh))

\* an endGame() that leaves the clock armed
endGameTimersKept(q, h) == q

\* the timers after endGame's clearInterval(this.timerInterval)
endGameTimers(q, h) == clearInterval(q, h)

\* an endGame that stores every final score
endGameLastScore(sc, best) == sc

\* endGame's high score rule
endGameHighScore(sc, best) == IF sc > best THEN sc ELSE best

\* endGame's badge rule: isNewRecord && this.score > 0
endGameBadge(sc, best) == IF sc > best /\ sc > 0 THEN "shown" ELSE "hidden"

\* no sampling loop is running
NoSampling == [loop |-> "none", attempts |-> 0, added |-> 0, count |-> 0]

----------------------------------------------------------------------------
(* Initial state: after the constructor and init() *)

InitWith(stored) ==
    /\ state = "INTRO"
    /\ score = 0
    /\ timeLeft = GameTime
    /\ highScore \in stored
    /\ newRecordBadge = "unset"
    /\ timerInterval = 0
    /\ apples = <<>>
    /\ particles = EmptyBag
    /\ isDrawing = FALSE
    /\ currentPath = <<>>
    /\ timers = <<>>
    /\ nextHandle = 1
    /\ loops = 0
    /\ starts = 0
    /\ made = 0
    /\ playTicks = 0
    /\ evaluated = "none"
    /\ sampling = NoSampling

\* the page loaded with any of the sampled stored high scores
Init == InitWith(StoredHighScores)

\* the page loaded with nothing stored: parseInt(null) || 0
FirstLoad == InitWith({0})

----------------------------------------------------------------------------
(* Actions *)

\* startGame() -> startCountdown(): a click on start, reset or play again
StartGame(Draws, limit) ==
    /\ starts < limit
    /\ \E b \in generateApples(apples, starts + 1, Draws) :
          /\ apples' = b.apples
          /\ made' = b.made
    /\ state' = "COUNTDOWN"
    /\ score' = updateScore(0, 0)
    /\ timeLeft' = GameTime
    /\ timers' = Append(timers, CountdownTimer(nextHandle))
    /\ nextHandle' = nextHandle + 1
    /\ starts' = starts + 1
    /\ evaluated' = "none"
    /\ UNCHANGED <<highScore, newRecordBadge, timerInterval, particles,
                   isDrawing, currentPath, loops, playTicks,
                   sampling>>

\* the setInterval callback of startCountdown; its last firing runs beginPlay()
CountdownTick ==
    /\ timers # <<>>
    /\ Head(timers).kind = "countdown"
    /\ LET t == Head(timers)
           count == t.count - 1
       IN  IF count > 0
           THEN /\ timers' = Append(Tail(timers), [t EXCEPT !.count = count])
                /\ UNCHANGED <<state, timerInterval, nextHandle, loops,
                               particles, playTicks>>
           ELSE /\ state' = "PLAYING"
                /\ timers' = beginPlayTimers(clearInterval(Tail(timers), t.id),
                                              timerInterval, nextHandle)
                /\ timerInterval' = nextHandle
                /\ nextHandle' = nextHandle + 1
                /\ loops' = loops + 1
                /\ particles' = update(particles)
                /\ playTicks' = IF state = "PLAYING" THEN playTicks ELSE 0
    /\ UNCHANGED <<score, timeLeft, highScore, newRecordBadge, apples,
                   isDrawing, currentPath, starts, made, evaluated,
                   sampling>>

\* updateTimer(): the clock interval's callback; at zero it runs endGame()
UpdateTimer ==
    /\ timers # <<>>
    /\ Head(timers).kind = "clock"
    /\ timeLeft' = timeLeft - 1
    /\ playTicks' = playTicks + 1
    /\ LET rearmed == Append(Tail(timers), Head(timers))
       IN  IF timeLeft - 1 <= 0
           THEN /\ state' = "FINISHED"
                /\ timers' = endGameTimers(rearmed, timerInterval)
                /\ highScore' = endGameHighScore(score, highScore)
                /\ newRecordBadge' = endGameBadge(score, highScore)
           ELSE /\ timers' = rearmed
                /\ UNCHANGED <<state, highScore, newRecordBadge>>
    /\ UNCHANGED <<score, timerInterval, apples, particles, isDrawing,
                   currentPath, nextHandle, loops, starts, made, evaluated,
                   sampling>>

\* update() run n times; with no particle left a run changes nothing
RECURSIVE updates(_, _)
updates(ps, n) ==
    IF n = 0 \/ ps = EmptyBag THEN ps ELSE updates(update(ps), n - 1)

\* n requestAnimationFrame callbacks of live loop() chains, back to back
Frames(n) ==
    /\ loops > 0
    /\ particles' = updates(particles, n)
    /\ UNCHANGED <<state, score, timeLeft, highScore, newRecordBadge,
                   timerInterval, apples, isDrawing, currentPath, timers,
                   nextHandle, loops, starts, made, playTicks, evaluated,
                   sampling>>

\* handleInputStart(e): mousedown / touchstart on the canvas
HandleInputStart(pos) ==
    /\ state = "PLAYING"
    /\ score < MaxScore
    /\ isDrawing' = TRUE
    /\ currentPath' = <<pos>>
    /\ evaluated' = "none"
    /\ UNCHANGED <<state, score, timeLeft, highScore, newRecordBadge,
                   timerInterval, apples, particles, timers, nextHandle, loops,
                   starts, made, playTicks,
                   sampling>>

\* a distance test that also accepts a move of exactly 5
movedAtLeast(pos, last) == Dist2(pos, last.x, last.y) >= MinMove * MinMove

\* Math.hypot(pos.x - last.x, pos.y - last.y) > 5
movedEnough(pos, last) == Dist2(pos, last.x, last.y) > MinMove * MinMove

\* handleInputMove(e): mousemove / touchmove on the canvas
HandleInputMove(pos) ==
    /\ isDrawing
    /\ state = "PLAYING"
    /\ Len(currentPath) < MaxPath
    /\ LET last == currentPath[Len(currentPath)]
       IN  IF movedEnough(pos, last)
           THEN /\ currentPath' = Append(currentPath, pos)
                /\ apples' = checkRealTimeSelection(apples, currentPath')
           ELSE UNCHANGED <<currentPath, apples>>
    /\ UNCHANGED <<state, score, timeLeft, highScore, newRecordBadge,
                   timerInterval, particles, isDrawing, timers, nextHandle,
                   loops, starts, made, playTicks, evaluated,
                   sampling>>

\* a release that keeps the path
heldPath(vs) == vs

\* this.currentPath = [] at the end of handleInputEnd
clearedPath(vs) == <<>>

\* handleInputEnd(e): mouseup / touchend on the window
HandleInputEnd(Draws, Decays) ==
    /\ isDrawing
    /\ isDrawing' = FALSE
    /\ \E r \in checkSelection(apples, currentPath, score, particles,
                                starts, made, Draws, Decays) :
          /\ apples' = r.apples
          /\ score' = r.score
          /\ particles' = r.particles
          /\ made' = r.made
    /\ evaluated' = selectionBranch(apples, currentPath)
    /\ currentPath' = clearedPath(currentPath)
    /\ UNCHANGED <<state, timeLeft, highScore, newRecordBadge, timerInterval,
                   timers, nextHandle, loops, starts, playTicks,
                   sampling>>

\* A first visit: a board of up to three tokens and lassos that can match.
Next ==
    \/ StartGame(RandomDraws, MaxGames)
    \/ CountdownTick
    \/ UpdateTimer
    \/ Frames(FrameBatch)
    \/ \E pos \in PointerStarts : HandleInputStart(pos)
    \/ \E pos \in PointerMoves : HandleInputMove(pos)
    \/ HandleInputEnd(RandomDraws, DecayRandoms)

Spec == FirstLoad /\ [][Next]_vars

\* Sessions with restarts in every phase, on a board of one token.
SessionNext ==
    \/ StartGame(SessionDraws, MaxStarts)
    \/ CountdownTick
    \/ UpdateTimer
    \/ Frames(1)
    \/ \E pos \in PointerStarts : HandleInputStart(pos)
    \/ \E pos \in SessionMoves : HandleInputMove(pos)
    \/ HandleInputEnd(SessionDraws, DecayRandoms)

SessionSpec == Init /\ [][SessionNext]_vars

\* startGame() from the buttons of the intro and the result overlays, which
\* are on screen in INTRO and in FINISHED
PlayAgain(Draws, limit) ==
    /\ state \in {"INTRO", "FINISHED"}
    /\ StartGame(Draws, limit)

\* Games played one after the other to their end, on a board of two tokens
\* that one lasso can match.
RecordNext ==
    \/ PlayAgain(RecordDraws, MaxStarts)
    \/ CountdownTick
    \/ UpdateTimer
    \/ Frames(FrameBatch)
    \/ \E pos \in PointerStarts : HandleInputStart(pos)
    \/ \E pos \in PointerMoves : HandleInputMove(pos)
    \/ HandleInputEnd(RecordDraws, DecayRandoms)

RecordSpec == Init /\ [][RecordNext]_vars

\* Games played one after the other to their end, on boards of up to three
\* tokens that a match thins out and the refill fills again.
RefillNext ==
    \/ PlayAgain(RandomDraws, MaxGames)
    \/ CountdownTick
    \/ UpdateTimer
    \/ Frames(FrameBatch)
    \/ \E pos \in PointerStarts : HandleInputStart(pos)
    \/ \E pos \in PointerMoves : HandleInputMove(pos)
    \/ HandleInputEnd(RandomDraws, DecayRandoms)

RefillSpec == FirstLoad /\ [][RefillNext]_vars

\* Starts in any phase, countdowns and gestures before the clock's first tick,
\* on a canvas with four free places for a board of up to three tokens.
CapNext ==
    \/ StartGame(CapDraws, MaxStarts)
    \/ CountdownTick
    \/ \E pos \in PointerStarts : HandleInputStart(pos)
    \/ \E pos \in PointerMoves : HandleInputMove(pos)
    \/ HandleInputEnd(CapDraws, DecayRandoms)

CapSpec == FirstLoad /\ [][CapNext]_vars

\* The frames and gestures between beginPlay() and the first tick of the
\* clock, frame by frame, with particles of the slowest decay.
ParticleNext ==
    \/ StartGame(RecordDraws, MaxGames)
    \/ CountdownTick
    \/ Frames(1)
    \/ \E pos \in PointerStarts : HandleInputStart(pos)
    \/ \E pos \in PointerMoves : HandleInputMove(pos)
    \/ HandleInputEnd(RecordDraws, SlowDecays)

ParticleSpec == FirstLoad /\ [][ParticleNext]_vars

----------------------------------------------------------------------------
(* The sampling loops, one pass of the while body per step *)

\* generateApples() up to its loop
GenerateBegin ==
    /\ sampling.loop = "none"
    /\ apples' = clearedBoard(apples)
    /\ made' = 0
    /\ sampling' = [NoSampling EXCEPT !.loop = "generate"]
    /\ UNCHANGED <<state, score, timeLeft, highScore, newRecordBadge,
                   timerInterval, particles, isDrawing, currentPath, timers,
                   nextHandle, loops, starts, playTicks, evaluated>>

\* one pass of generateApples' while body
GenerateStep(Draws) ==
    /\ sampling.loop = "generate"
    /\ generateContinues(apples, sampling.attempts)
    /\ \E d \in Draws :
          LET b == GenerateAttempt([apples |-> apples, made |-> made], d,
                                   starts + 1)
          IN  /\ apples' = b.apples
              /\ made' = b.made
    /\ sampling' = [sampling EXCEPT !.attempts = @ + 1]
    /\ UNCHANGED <<state, score, timeLeft, highScore, newRecordBadge,
                   timerInterval, particles, isDrawing, currentPath, timers,
                   nextHandle, loops, starts, playTicks, evaluated>>

\* generateApples' loop condition fails: the function returns
GenerateReturn ==
    /\ sampling.loop = "generate"
    /\ ~generateContinues(apples, sampling.attempts)
    /\ sampling' = [sampling EXCEPT !.loop = "generated"]
    /\ UNCHANGED <<state, score, timeLeft, highScore, newRecordBadge,
                   timerInterval, apples, particles, isDrawing, currentPath,
                   timers, nextHandle, loops, starts, made, playTicks, evaluated>>

\* a match marks the tokens at the indices K removed and checkRefill() calls
\* spawnNewApples(needed)
SpawnBegin ==
    /\ sampling.loop = "generated"
    /\ \E K \in (SUBSET (1..Len(apples))) \ {{}} :
          LET marked == [i \in 1..Len(apples) |->
                            IF i \in K THEN [apples[i] EXCEPT !.removed = TRUE]
                                       ELSE apples[i]]
              needed == targetApples - Len(SelectSeq(marked, NotRemoved))
          IN  /\ needed > 0
              /\ apples' = marked
              /\ sampling' = [loop |-> "spawn", attempts |-> 0, added |-> 0,
                              count |-> needed]
    /\ UNCHANGED <<state, score, timeLeft, highScore, newRecordBadge,
                   timerInterval, particles, isDrawing, currentPath, timers,
                   nextHandle, loops, starts, made, playTicks, evaluated>>

\* one pass of spawnNewApples' while body
SpawnStep(Draws) ==
    /\ sampling.loop = "spawn"
    /\ spawnContinues(sampling.added, sampling.count, sampling.attempts)
    /\ \E d \in Draws :
          LET b == SpawnAttempt([apples |-> apples, made |-> made,
                                 added |-> sampling.added], d, starts + 1)
          IN  /\ apples' = b.apples
              /\ made' = b.made
              /\ sampling' = [sampling EXCEPT !.attempts = @ + 1,
                                              !.added = b.added]
    /\ UNCHANGED <<state, score, timeLeft, highScore, newRecordBadge,
                   timerInterval, particles, isDrawing, currentPath, timers,
                   nextHandle, loops, starts, playTicks, evaluated>>

\* spawnNewApples' loop condition fails: the compaction, then the return
SpawnReturn ==
    /\ sampling.loop = "spawn"
    /\ ~spawnContinues(sampling.added, sampling.count, sampling.attempts)
    /\ apples' = SelectSeq(apples, NotRemoved)
    /\ sampling' = [sampling EXCEPT !.loop = "spawned"]
    /\ UNCHANGED <<state, score, timeLeft, highScore, newRecordBadge,
                   timerInterval, particles, isDrawing, currentPath, timers,
                   nextHandle, loops, starts, made, playTicks, evaluated>>

\* One initial fill and one refill, pass by pass.
SamplerNext ==
    \/ GenerateBegin
    \/ GenerateStep(RandomDraws)
    \/ GenerateReturn
    \/ SpawnBegin
    \/ SpawnStep(RandomDraws)
    \/ SpawnReturn

SamplerSpec == FirstLoad /\ [][SamplerNext]_vars

----------------------------------------------------------------------------
(* Vocabulary of the claims *)

Ids(as) == { as[i].id : i \in 1..Len(as) }
ActiveIds(as) == { as[i].id : i \in { j \in 1..Len(as) : ~as[j].removed } }
SelectedIds(as) == { as[i].id : i \in { j \in 1..Len(as) : SelectedActive(as[j]) } }
ClockTimers == { i \in 1..Len(timers) : timers[i].kind = "clock" }

\* a step of handleInputEnd that ends a drag
EndsDrag == isDrawing /\ ~isDrawing'
\* a step of a pointer handler
PointerStep == isDrawing' # isDrawing \/ currentPath' # currentPath
\* a step in which beginPlay() runs: it alone sets this.timerInterval
BeginPlayRuns == timerInterval' # timerInterval
\* a step in which updateTimer() runs: it alone lowers this.timeLeft
ClockTicks == timeLeft' < timeLeft
\* a step in which startGame() runs
StartRuns == starts' = starts + 1
\* the board as with every token removed and unselected
AllRemoved(as) ==
    [i \in 1..Len(as) |-> [as[i] EXCEPT !.removed = TRUE, !.selected = FALSE]]
\* a step of handleInputMove that appends a point to the path
AppendsPoint == isDrawing /\ Len(currentPath') = Len(currentPath) + 1
\* the selected flags of the board, by token
Flags(as) == { <<as[i].id, as[i].selected>> : i \in 1..Len(as) }
\* a release that checkSelection() scores as a match
MatchRelease ==
    /\ EndsDrag
    /\ Len(currentPath) >= 3
    /\ SumValues(SelectSeq(apples, SelectedActive)) = MatchSum
\* a step in which endGame() runs: the tick that finds timeLeft <= 0
EndGameRuns == ClockTicks /\ timeLeft' <= 0

PhaseSteps ==
    { <<"INTRO", "COUNTDOWN">>, <<"COUNTDOWN", "PLAYING">>,
      <<"PLAYING", "FINISHED">>, <<"PLAYING", "COUNTDOWN">>,
      <<"FINISHED", "COUNTDOWN">> }

----------------------------------------------------------------------------
(* Claims *)

\* C1: outside PLAYING no pointer event, the release of an earlier drag
\* included, changes the score or the set of active tokens.
C1_SelectionOnlyWhilePlaying ==
    [][(PointerStep /\ state # "PLAYING")
         => (score' = score /\ ActiveIds(apples') = ActiveIds(apples))]_vars

\* C2: a release with a path of at least 3 points whose selected active
\* tokens sum to 10 removes exactly those tokens from the board, adds their
\* number to the score and runs the refill: the removed tokens are compacted
\* away and every other token of the new board is newly made, at most the
\* shortfall of them.
C2_MatchRemovesSelected ==
    [][(/\ EndsDrag
        /\ Len(currentPath) >= 3
        /\ SumValues(SelectSeq(apples, SelectedActive)) = MatchSum)
         => LET sel == SelectedIds(apples)
                rest == ActiveIds(apples) \ sel
            IN  /\ sel # {}
                /\ Ids(apples') \cap sel = {}
                /\ rest \subseteq ActiveIds(apples')
                /\ score' = score + Cardinality(sel)
                /\ ActiveIds(apples') = Ids(apples')
                /\ Len(apples') = Cardinality(rest) + (made' - made)
                /\ made' - made <= targetApples - Cardinality(rest)
                /\ \A i \in 1..Len(apples') :
                      apples'[i].id \in rest \/ apples'[i].id[2] > made]_vars

\* C2's case: a match was scored while the token made first, which the lasso
\* cannot reach, stayed on the board.
C2_Witness ==
    /\ evaluated = "match"
    /\ score = 2
    /\ \E i \in 1..Len(apples) : apples[i].id[2] = 1 /\ apples[i].x = 155

\* C3: a release whose selection does not sum to 10, or whose path has fewer
\* than 3 points, changes neither score, tokens, values, positions, removed
\* flags, particles, phase nor time; selected flags may only be cleared; and
\* evaluating the result again changes nothing.
C3_MissChangesNothing ==
    [][(/\ EndsDrag
        /\ \/ Len(currentPath) < 3
           \/ SumValues(SelectSeq(apples, SelectedActive)) # MatchSum)
         => /\ score' = score
            /\ particles' = particles
            /\ state' = state
            /\ timeLeft' = timeLeft
            /\ made' = made
            /\ Len(apples') = Len(apples)
            /\ \A i \in 1..Len(apples) :
                  apples'[i] = apples[i] \/ apples'[i] = Deselect(apples[i])
            /\ checkSelection(apples', currentPath, score', particles', starts,
                              made', RandomDraws, DecayRandoms)
                 = { [apples |-> apples', score |-> score',
                      particles |-> particles', made |-> made'] }]_vars

\* C3's case: a lasso of three points was released with no match on a board
\* where it encloses the token at x = 35 and nothing else.
C3_Witness ==
    /\ evaluated = "miss"
    /\ \E i \in 1..Len(apples) : apples[i].x = 35
    /\ \A i \in 1..Len(apples) : apples[i].x # 95

\* C4: whenever no drag is in progress, no token is selected.
C4_FlagsClearedAfterRelease ==
    ~isDrawing => \A i \in 1..Len(apples) : ~apples[i].selected

\* C5: the clock is lowered only while PLAYING, and it still shows the full
\* time when the countdown completes.
C5_ClockOnlyWhilePlaying ==
    [][/\ ClockTicks => state = "PLAYING"
       /\ (BeginPlayRuns /\ state = "COUNTDOWN") => timeLeft = GameTime]_vars

\* C6: at most one render loop chain is alive.
C6_SingleLoop == loops <= 1

\* C7: at most one clock interval is armed, and none while FINISHED.
C7_SingleClock ==
    /\ Cardinality(ClockTimers) <= 1
    /\ state = "FINISHED" => ClockTimers = {}

\* C7's case: a clock is armed after beginPlay() has run twice.
C7_Witness == loops = 2 /\ ClockTimers # {}

\* C8: phases step only INTRO -> COUNTDOWN -> PLAYING -> FINISHED or back to
\* COUNTDOWN by a start; beginPlay() runs only in COUNTDOWN and endGame()
\* only in PLAYING.
C8_LinearPhases ==
    [][/\ state' # state => <<state, state'>> \in PhaseSteps
       /\ (state' # state /\ state' = "COUNTDOWN") => StartRuns
       /\ BeginPlayRuns => state = "COUNTDOWN"
       /\ (ClockTicks /\ state' = "FINISHED") => state = "PLAYING"]_vars

C10_FinishedAtSixtiethTick ==
    state = "FINISHED" => playTicks = GameTime

\* C11: endGame() raises the best score to the final score exactly when the
\* final score exceeds it and leaves it alone otherwise; it shows the badge
\* exactly when the final score exceeds the previous best and is above 0, and
\* hides it otherwise; no other step touches either, so the best score never
\* decreases.
C11_HighScoreRule ==
    [][/\ highScore' >= highScore
       /\ EndGameRuns
            => /\ score > highScore => highScore' = score
               /\ ~(score > highScore) => highScore' = highScore
               /\ newRecordBadge' \in {"shown", "hidden"}
               /\ newRecordBadge' = "shown" <=> (score > highScore /\ score > 0)
       /\ ~EndGameRuns => UNCHANGED <<highScore, newRecordBadge>>]_vars

\* C11's case: the second game ended on the score that the first game had
\* made the best score.
C11_Witness ==
    /\ state = "FINISHED"
    /\ starts = 2
    /\ score = 2
    /\ highScore = 2
    /\ newRecordBadge = "hidden"

\* C12: a match on a board of n active tokens that removes k of them has a
\* shortfall of target - (n - k) > 0 and makes at most that many tokens: the
\* new board holds the n - k survivors and the newly made tokens and nothing
\* removed, it is full when the whole shortfall was made and holds between
\* n - k and target - 1 tokens otherwise, and the phase is as before.
\* No board ever holds more active tokens than the target.
C12_RefillRestoresTarget ==
    [][/\ Cardinality(ActiveIds(apples')) <= targetApples
       /\ MatchRelease
            => LET rest == Cardinality(ActiveIds(apples) \ SelectedIds(apples))
                   needed == targetApples - rest
                   added == made' - made
                   after == Cardinality(ActiveIds(apples'))
               IN  /\ needed > 0
                   /\ added >= 0 /\ added <= needed
                   /\ ActiveIds(apples) \ SelectedIds(apples)
                        \subseteq ActiveIds(apples')
                   /\ Len(apples') = after
                   /\ after = rest + added
                   /\ added = needed => after = targetApples
                   /\ added # needed
                        => (after >= rest /\ after <= targetApples - 1)
                   /\ state' = state]_vars

\* C12's case: a match removed two tokens of a full board and the refill
\* made two new ones next to the survivor.
C12_Witness ==
    /\ evaluated = "match"
    /\ made = totalApples + 2
    /\ Len(apples) = targetApples
    /\ \E i \in 1..Len(apples) : apples[i].id[2] <= totalApples

\* C13: any two distinct tokens of the board that are not removed have their
\* centres at distance 2 * 25 + 10 or more, also right after a refill that
\* placed new tokens beside survivors, beside each other and where removed
\* tokens had been.
C13_NonOverlap ==
    \A i, j \in 1..Len(apples) :
        (i # j /\ ~apples[i].removed /\ ~apples[j].removed)
            => Dist2(apples[i], apples[j].x, apples[j].y) >= Spacing2

\* C13's case: after a match the refill has put two new tokens where the two
\* removed ones had been, 60 apart and the nearer one 60 from the survivor.
C13_Witness ==
    /\ evaluated = "match"
    /\ \E i, j, k \in 1..Len(apples) :
          /\ apples[i].id[2] > totalApples /\ apples[i].x = 35
          /\ apples[j].id[2] > totalApples /\ apples[j].x = 95
          /\ apples[k].id[2] <= totalApples /\ apples[k].x = 155

\* C14: removed tokens are never acted on.  No step leaves a removed token on
\* the board; a match removes selected active tokens only, counts each once
\* and none of them returns: every token of the next board was active before
\* or is newly made; the score rises by a match only; and on a board of
\* removed tokens checkRealTimeSelection() selects nothing and a match sum
\* counts nothing.
C14_RemovedNeverActedOn ==
    [][/\ \A i \in 1..Len(apples') : ~apples'[i].removed
       /\ Cardinality(Ids(apples')) = Len(apples')
       /\ \A id \in Ids(apples') :
             \/ id \in ActiveIds(apples)
             \/ id[1] > starts
             \/ id[1] = starts /\ id[2] > made
       /\ score' > score => MatchRelease
       /\ MatchRelease
            => /\ SelectedIds(apples) \subseteq ActiveIds(apples)
               /\ Ids(apples') \cap SelectedIds(apples) = {}
               /\ score' = score + Cardinality(SelectedIds(apples))
       /\ checkRealTimeSelection(AllRemoved(apples), currentPath)
             = AllRemoved(apples)
       /\ SumValues(SelectSeq(MarkRemoved(apples), SelectedActive)) = 0]_vars

\* C14's case: a match removed both tokens of a board of two and the refill
\* made a full board of new ones.
C14_Witness ==
    /\ evaluated = "match"
    /\ Len(apples) = targetApples
    /\ \A i \in 1..Len(apples) : apples[i].id[2] > 2

\* C15: each pass of a sampling loop uses one attempt, generateApples never
\* goes beyond 1000 attempts and spawnNewApples never beyond 500, and a loop
\* that has used its budget returns with the tokens it has placed, one of
\* the boards the handler's call can leave.
C15_SamplersTerminate ==
    [][/\ sampling'.loop = "generate" => sampling'.attempts <= maxAttempts
       /\ sampling'.loop = "spawn" => sampling'.attempts <= refillAttempts
       /\ (sampling.loop = sampling'.loop /\ sampling.loop \in {"generate", "spawn"})
            => sampling'.attempts = sampling.attempts + 1
       /\ (sampling.loop = "generate" /\ sampling.attempts = maxAttempts)
            => /\ sampling'.loop = "generated"
               /\ apples' = apples
       /\ (sampling.loop = "spawn" /\ sampling.attempts = refillAttempts)
            => /\ sampling'.loop = "spawned"
               /\ apples' = SelectSeq(apples, NotRemoved)
       /\ sampling'.loop = "generated"
            => /\ Len(apples') <= totalApples
               /\ [apples |-> apples', made |-> made']
                     \in generateApples(<<>>, starts + 1, RandomDraws)
       /\ sampling'.loop = "spawned"
            => Len(apples') <= targetApples]_vars

\* C15's case: a refill returned after 500 attempts with fewer tokens placed
\* than it was asked for.
C15_Witness ==
    /\ sampling.loop = "spawned"
    /\ sampling.attempts = refillAttempts
    /\ sampling.added < sampling.count
    /\ Len(apples) < targetApples

\* C16: at every release with a path of at least 3 points the tokens that
\* checkSelection() sums, those selected and not removed, are the tokens of
\* the board that are not removed and whose centre is inside the path.
C16_ScoredSetIsContainmentSet ==
    [][(EndsDrag /\ Len(currentPath) >= 3)
         => SelectedIds(apples) = Ids(containedApples(apples, currentPath))]_vars

\* C17: a pointer move appends its point only while PLAYING and only when it
\* is more than 5 from the last point; the flags are then those of the path
\* with the new point: a token that is not removed is selected exactly when
\* that path has 3 points or more and contains its centre; nothing else of
\* the board changes; and flags change in no step but an append, a release
\* or a start.
C17_LiveHighlight ==
    [][/\ AppendsPoint
            => LET n == Len(currentPath)
               IN  /\ state = "PLAYING"
                   /\ SubSeq(currentPath', 1, n) = currentPath
                   /\ Dist2(currentPath'[n + 1], currentPath[n].x,
                            currentPath[n].y) > MinMove * MinMove
                   /\ Len(apples') = Len(apples)
                   /\ \A i \in 1..Len(apples) :
                         /\ [apples'[i] EXCEPT !.selected = FALSE]
                              = [apples[i] EXCEPT !.selected = FALSE]
                         /\ ~apples[i].removed
                              => apples'[i].selected
                                   = (/\ n + 1 >= 3
                                      /\ isPointInPolygon(apples[i], currentPath'))
       /\ Flags(apples') # Flags(apples)
            => (AppendsPoint \/ EndsDrag \/ StartRuns)]_vars

\* C17's case: the append of the lasso's third point has selected a token.
C17_Witness ==
    /\ state = "PLAYING"
    /\ isDrawing
    /\ currentPath = << [x |-> 5, y |-> 5], [x |-> 5, y |-> 125],
                        [x |-> 125, y |-> 65] >>
    /\ \E i \in 1..Len(apples) : apples[i].selected

\* C18: a drag is in progress exactly when the path holds a point, before and
\* after every step; a release empties the path; a gesture begins, with a
\* path of its one point, only while PLAYING; and a move appends to a path
\* that has a last point.
C18_PathLifecycle ==
    [][/\ isDrawing <=> currentPath # <<>>
       /\ isDrawing' <=> currentPath' # <<>>
       /\ EndsDrag => currentPath' = <<>>
       /\ (isDrawing' /\ Len(currentPath') = 1 /\ currentPath' # currentPath)
            => state = "PLAYING"
       /\ AppendsPoint => Len(currentPath) >= 1]_vars

\* C18's case: a drag of one point, begun while PLAYING, was released after
\* the game had ended.
C18_Witness ==
    /\ state = "FINISHED"
    /\ evaluated = "short"
    /\ ~isDrawing
    /\ currentPath = <<>>

\* C19: the clock shows 0 to 60 before and after every step; endGame() runs
\* only in the tick that takes the clock from 1 to 0; while FINISHED the
\* clock shows 0 and no tick fires.
C19_ClockInRange ==
    [][/\ timeLeft \in 0..GameTime
       /\ timeLeft' \in 0..GameTime
       /\ (\/ state' = "FINISHED" /\ state # "FINISHED"
           \/ newRecordBadge' # newRecordBadge
           \/ highScore' # highScore)
            => (ClockTicks /\ timeLeft = 1 /\ timeLeft' = 0)
       /\ (ClockTicks /\ timeLeft' = 0) => state' = "FINISHED"
       /\ state = "FINISHED" => (timeLeft = 0 /\ ~ClockTicks)
       /\ state' = "FINISHED" => timeLeft' = 0]_vars

\* C19's case: the second game has run to its end and no timer is armed.
C19_Witness ==
    /\ state = "FINISHED"
    /\ starts = 2
    /\ timeLeft = 0
    /\ timers = <<>>

\* C20: a match that removes k tokens adds 10 * k particles and nothing else
\* adds any; after every step every particle has life above 0; a step that
\* advances the particles lowers each one's life by its decay, which is at
\* least 0.02 of a full life, drops those that reach 0 or less, so that 50
\* updates drop them all, and leaves score, tokens and phase alone unless it
\* is beginPlay()'s own frame.
C20_ParticleLifecycle ==
    [][/\ MatchRelease
            => BagCardinality(particles')
                 = BagCardinality(particles)
                     + BurstSize * Cardinality(SelectedIds(apples))
       /\ BagCardinality(particles') > BagCardinality(particles) => MatchRelease
       /\ \A p \in BagToSet(particles') :
             p.life > 0 /\ p.life <= FullLife /\ p.decay >= DecayBase
       /\ updates(particles', FullLife \div DecayBase) = EmptyBag
       /\ (particles' # particles /\ ~MatchRelease)
            => /\ \A p \in BagToSet(particles) :
                     LET q == [p EXCEPT !.life = p.life - p.decay]
                     IN  CopiesIn(q, particles')
                           = IF q.life > 0 THEN CopiesIn(p, particles) ELSE 0
               /\ BagCardinality(particles') <= BagCardinality(particles)
               /\ score' = score
               /\ apples' = apples
               /\ ~BeginPlayRuns => state' = state]_vars

\* C20's case: the particles of a match have all been dropped, 50 frames
\* after the release.
C20_Witness ==
    /\ evaluated = "match"
    /\ score = 2
    /\ loops > 0
    /\ particles = EmptyBag

\* C21: before and after every step no token of the board is removed; at a
\* match the tokens left active are fewer than the target, so checkRefill()
\* calls spawnNewApples() and its compaction runs.
C21_NoRemovedBetweenHandlers ==
    [][/\ \A i \in 1..Len(apples) : ~apples[i].removed
       /\ \A i \in 1..Len(apples') : ~apples'[i].removed
       /\ MatchRelease
            => /\ MarkRemoved(apples) # apples
               /\ targetApples
                    - Len(SelectSeq(MarkRemoved(apples), NotRemoved)) > 0]_vars

\* C21's case: a match took two tokens of three and the refill placed none,
\* so the board is the survivor alone.
C21_Witness ==
    /\ evaluated = "match"
    /\ Len(apples) = 1
    /\ ~apples[1].removed
    /\ apples[1].id[2] <= totalApples

\* C22: token values are 1 to 9; a match removes at least 2 tokens and adds
\* their number to the score; the score rises in no other step, falls only
\* to 0 and only in startGame(), and is never negative.
C22_MatchScoresAtLeastTwo ==
    [][/\ \A i \in 1..Len(apples') : apples'[i].value \in 1..ValueRange
       /\ MatchRelease
            => /\ Cardinality(SelectedIds(apples)) >= 2
               /\ score' - score = Cardinality(SelectedIds(apples))
       /\ score' > score => MatchRelease
       /\ score' < score => (StartRuns /\ score' = 0)
       /\ StartRuns => score' = 0
       /\ score >= 0
       /\ score' >= 0]_vars

\* C22's case: a match of two tokens was scored on a board that holds a
\* token of the largest value, 9.
C22_Witness ==
    /\ evaluated = "match"
    /\ score = 2
    /\ \E i \in 1..Len(apples) : apples[i].value = ValueRange

\* the places of CapDraws that no active token of the board as is too close to
FreePlaces(as) ==
    { d \in CapDraws :
        ~OverlapsActive(as, RandomCoord(d.x, width), RandomCoord(d.y, height)) }

\* C23: in every reachable state the tokens of the board that are not removed
\* number at most targetApples, and so do the tokens of the array.
C23_ActiveAtMostTarget ==
    /\ Len(SelectSeq(apples, NotRemoved)) <= targetApples
    /\ Len(apples) <= targetApples

\* C23's case: after a match the refill has brought the board to its target
\* with a token of its own while a place of the canvas is still free.
C23_Witness ==
    /\ evaluated = "match"
    /\ Len(SelectSeq(apples, NotRemoved)) = targetApples
    /\ \E i \in 1..Len(apples) : apples[i].id[2] > totalApples
    /\ FreePlaces(apples) # {}

\* C24: whenever a step leaves the phase FINISHED, highScore is at least the
\* score, and a step taken in FINISHED that is not a start leaves the score
\* as endGame() showed it.
C24_BestCoversFinishedScore ==
    [][/\ state' = "FINISHED" => highScore' >= score'
       /\ (state = "FINISHED" /\ ~StartRuns) => score' = score]_vars

====
